---- MODULE Spec2Model ----
(***************************************************************************)
(* Model of node/src/manager/commands/fix_block.rs: the block-cache        *)
(* reconciliation commands by_hash, by_number, by_range and truncate.      *)
(* Text is a sequence of one-character strings; a JSON object is a         *)
(* function from keys to values; a JSON array is a sequence.               *)
(***************************************************************************)
EXTENDS Integers, Sequences, FiniteSets, TLC

\* ------------------------------------------------------------------ bounds
MaxBlock == 2

\* ------------------------------------------------------- program constants
HashBytes == 32
I32Max == 2147483647
I32Min == (-2147483647) - 1

None == <<>>
Some(x) == <<x>>

\* --------------------------------------------------------------- text utils
Digits == <<"0", "1", "2", "3", "4", "5", "6", "7", "8", "9">>
HexLower == <<"0", "1", "2", "3", "4", "5", "6", "7", "8", "9",
              "a", "b", "c", "d", "e", "f">>
HexUpper == <<"0", "1", "2", "3", "4", "5", "6", "7", "8", "9",
              "A", "B", "C", "D", "E", "F">>

IndexIn(c, table) ==
    IF \E i \in 1..Len(table) : table[i] = c
    THEN CHOOSE i \in 1..Len(table) : table[i] = c
    ELSE 0

StartsWith(s, p) == Len(s) >= Len(p) /\ SubSeq(s, 1, Len(p)) = p

\* str::contains
Contains(s, p) == \E i \in 1..(Len(s) - Len(p) + 1) : SubSeq(s, i, i + Len(p) - 1) = p

\* position of the first occurrence of p in s, 0 when there is none
Find(s, p) ==
    IF Contains(s, p)
    THEN CHOOSE i \in 1..(Len(s) - Len(p) + 1) :
            /\ SubSeq(s, i, i + Len(p) - 1) = p
            /\ \A j \in 1..(i - 1) : SubSeq(s, j, j + Len(p) - 1) # p
    ELSE 0

\* str::split(separator).collect()
RECURSIVE Split(_, _)
Split(s, sep) ==
    LET i == Find(s, sep) IN
    IF i = 0 THEN <<s>>
    ELSE <<SubSeq(s, 1, i - 1)>> \o Split(SubSeq(s, i + Len(sep), Len(s)), sep)

\* str::parse::<i32>(): optional sign, at least one digit, checked arithmetic
RECURSIVE ParseDigits(_, _, _)
ParseDigits(s, acc, negative) ==
    IF s = <<>> THEN [ok |-> TRUE, val |-> acc]
    ELSE LET d == IndexIn(Head(s), Digits) - 1 IN
         IF d < 0 THEN [ok |-> FALSE, val |-> 0]
         ELSE IF negative
              THEN IF acc < ((I32Min + d) + 9) \div 10
                   THEN [ok |-> FALSE, val |-> 0]
                   ELSE ParseDigits(Tail(s), acc * 10 - d, negative)
              ELSE IF acc > (I32Max - d) \div 10
                   THEN [ok |-> FALSE, val |-> 0]
                   ELSE ParseDigits(Tail(s), acc * 10 + d, negative)

ParseI32(s) ==
    IF s = <<>> THEN [ok |-> FALSE, val |-> 0]
    ELSE IF Head(s) \in {"+", "-"}
         THEN IF Tail(s) = <<>> THEN [ok |-> FALSE, val |-> 0]
              ELSE ParseDigits(Tail(s), 0, Head(s) = "-")
         ELSE ParseDigits(s, 0, FALSE)

\* ------------------------------------------------------------ ranges::Range
INCLUSIVE == <<".", ".", "=">>
EXCLUSIVE == <<".", ".">>

RangeNew(lower_bound, upper_bound, inclusive) ==
    [lower_bound |-> lower_bound, upper_bound |-> upper_bound, inclusive |-> inclusive]

ParseErr(msg) == [ok |-> FALSE, err |-> msg]
ParseOk(r) == [ok |-> TRUE, range |-> r]

\* variant: the flag follows the separator
OpenUpperInclusiveFromSeparator(inclusive) == inclusive

\* the flag given to a range whose upper bound is open
OpenUpperInclusive(inclusive) == TRUE

\* <Range as FromStr>::from_str
RangeFromStr(s) ==
    IF ~Contains(s, INCLUSIVE) /\ ~Contains(s, EXCLUSIVE)
    THEN ParseErr("Malformed range expression")
    ELSE
      LET inclusive == Contains(s, INCLUSIVE)
          separator == IF inclusive THEN INCLUSIVE ELSE EXCLUSIVE
          split == Split(s, separator)
      IN
      IF Len(split) # 2 THEN ParseErr("Invalid range")
      ELSE
        LET start == ParseI32(split[1])
            end == ParseI32(split[2])
        IN
        CASE split[1] = <<>> /\ split[2] = <<>> ->
               ParseOk(RangeNew(None, None, OpenUpperInclusive(inclusive)))
          [] split[1] # <<>> /\ split[2] = <<>> ->
               IF ~start.ok THEN ParseErr("ParseIntError")
               ELSE ParseOk(RangeNew(Some(start.val), None, OpenUpperInclusive(inclusive)))
          [] split[1] = <<>> /\ split[2] # <<>> ->
               IF ~end.ok THEN ParseErr("ParseIntError")
               ELSE ParseOk(RangeNew(None, Some(end.val), inclusive))
          [] OTHER ->
               IF ~start.ok \/ ~end.ok THEN ParseErr("ParseIntError")
               ELSE IF start.val > end.val THEN ParseErr("Invalid range")
               ELSE ParseOk(RangeNew(Some(start.val), Some(end.val), inclusive))

\* variant: no lower bound counts as negative
NegativeBoundNever(x) == FALSE

\* the guard of min_max on the lower bound
NegativeBound(x) == x < 0

\* variant: a lower bound of 0 is kept
MinOfZeroKept(lower_bound) == IF lower_bound = None THEN 1 ELSE lower_bound[1]

\* the first block number of a range whose lower bound is not negative
MinOf(lower_bound) ==
    IF lower_bound = None \/ lower_bound = Some(0) THEN 1 ELSE lower_bound[1]

\* the upper bound min_max hands to the caller for a closed range
UpperAdjust(x, inclusive) == IF inclusive THEN x + 1 ELSE x

\* Range::min_max: the set of outcomes over the builds.  `x + inclusive`
\* on i32::MAX panics with overflow checks and wraps without them.
MinMax(r) ==
    IF r.lower_bound # None /\ r.lower_bound # Some(0) /\ NegativeBound(r.lower_bound[1])
    THEN {[tag |-> "Err", err |-> "Negative block number"]}
    ELSE
      LET min == MinOf(r.lower_bound) IN
      IF r.upper_bound = None
      THEN {[tag |-> "Ok", min |-> min, max |-> None]}
      ELSE IF r.inclusive /\ r.upper_bound = Some(I32Max)
           THEN {[tag |-> "Panic"], [tag |-> "Ok", min |-> min, max |-> Some(I32Min)]}
           ELSE {[tag |-> "Ok", min |-> min,
                  max |-> Some(UpperAdjust(r.upper_bound[1], r.inclusive))]}

\* ------------------------------------------------------------- block hashes
\* str::trim_start_matches: strips every repetition of the prefix
RECURSIVE TrimStartMatches(_, _)
TrimStartMatches(s, p) ==
    IF StartsWith(s, p) THEN TrimStartMatches(SubSeq(s, Len(p) + 1, Len(s)), p) ELSE s

HexVal(c) ==
    IF IndexIn(c, HexLower) > 0 THEN IndexIn(c, HexLower) - 1
    ELSE IndexIn(c, HexUpper) - 1

\* hex::decode
HexDecode(s) ==
    IF Len(s) % 2 # 0 THEN [ok |-> FALSE, bytes |-> <<>>]
    ELSE IF \E i \in 1..Len(s) : HexVal(s[i]) < 0 THEN [ok |-> FALSE, bytes |-> <<>>]
    ELSE [ok |-> TRUE,
          bytes |-> [i \in 1..(Len(s) \div 2) |->
                        16 * HexVal(s[2 * i - 1]) + HexVal(s[2 * i])]]

\* H256::from_slice asserts the length of the slice
H256FromSlice(bytes) ==
    IF Len(bytes) = HashBytes THEN [tag |-> "Ok", hash |-> bytes] ELSE [tag |-> "Panic"]

\* the block hash by_hash makes of its argument
ParseBlockHash(text) ==
    LET decoded == HexDecode(TrimStartMatches(text, <<"0", "x">>)) IN
    IF ~decoded.ok THEN [tag |-> "Err"] ELSE H256FromSlice(decoded.bytes)

HexEncode(bytes, table) ==
    [i \in 1..(2 * Len(bytes)) |->
        IF i % 2 = 1 THEN table[(bytes[(i + 1) \div 2] \div 16) + 1]
        ELSE table[(bytes[i \div 2] % 16) + 1]]

\* the hash the cache holds for block n, and the hash of a competing block
PrimaryHash(n) == [i \in 1..HashBytes |-> 160 + n]
ForkHash(n) == [i \in 1..HashBytes |-> 176 + n]

\* ------------------------------------------------------------ JSON payloads
\* serde_json::to_value of a struct: the fields in declaration order become
\* an object, in which the order of the keys carries no meaning
ToValue(fields) ==
    [k \in {fields[i][1] : i \in 1..Len(fields)} |->
        (CHOOSE f \in {fields[i] : i \in 1..Len(fields)} : f[1] = k)[2]]

CachedDoc(n) == ToValue(<<<<"number", n>>, <<"txs", <<"t1", "t2">>>>>>)
StaleDoc(n) == ToValue(<<<<"number", n>>, <<"txs", <<"t0">>>>>>)

Reverse(seq) == [i \in 1..Len(seq) |-> seq[Len(seq) + 1 - i]]

\* the payloads upstream may hold for a block the cache holds as c
UpstreamFields(c) ==
    { <<<<"txs", c.txs>>, <<"number", c.number>>>>,
      <<<<"number", c.number + 1>>, <<"txs", c.txs>>>>,
      <<<<"number", c.number>>, <<"txs", c.txs>>, <<"miner", "m1">>>>,
      <<<<"number", c.number>>>>,
      <<<<"number", c.number>>, <<"txs", Reverse(c.txs)>>>>,
      <<<<"number", c.number>>, <<"txs", c.txs \o <<"t3">>>>>> }

JsonNull == [kind |-> "null"]

\* JsonDiff::diff(json1, json2, false).diff for two objects
JsonDiff(json1, json2) ==
    LET deleted == DOMAIN json1 \ DOMAIN json2
        added == DOMAIN json2 \ DOMAIN json1
        changed == {k \in DOMAIN json1 \cap DOMAIN json2 : json1[k] # json2[k]}
    IN
    IF deleted = {} /\ added = {} /\ changed = {} THEN None
    ELSE Some([kind |-> "object", deleted |-> deleted, added |-> added,
               changed |-> [k \in changed |-> <<json1[k], json2[k]>>]])

\* json_structural_diff::colorize
DiffToString(diff) ==
    {<<"-", k>> : k \in diff.deleted} \cup {<<"+", k>> : k \in diff.added}
        \cup {<<"~", k>> : k \in DOMAIN diff.changed}

\* ---------------------------------------------------------------- the store
RECURSIVE SetToSeq(_)
SetToSeq(S) ==
    IF S = {} THEN <<>>
    ELSE LET x == CHOOSE y \in S : TRUE IN <<x>> \o SetToSeq(S \ {x})

Row(n, h, d) == [number |-> n, hash |-> h, data |-> d]

\* the rows the cache may hold for block number n: none, one block, two
\* competing blocks, one hash stored twice
RowShape(n, k) ==
    CASE k = 0 -> {}
      [] k = 1 -> {Row(n, PrimaryHash(n), CachedDoc(n))}
      [] k = 2 -> {Row(n, PrimaryHash(n), CachedDoc(n)), Row(n, ForkHash(n), CachedDoc(n))}
      [] OTHER -> {Row(n, PrimaryHash(n), CachedDoc(n)), Row(n, PrimaryHash(n), StaleDoc(n))}

Stores == { UNION {RowShape(n, f[n]) : n \in 1..MaxBlock} : f \in [1..MaxBlock -> 0..3] }

\* ChainStore::block_hashes_by_block_number
BlockHashesByBlockNumber(st, n) ==
    LET rows == SetToSeq({r \in st : r.number = n}) IN [i \in 1..Len(rows) |-> rows[i].hash]

\* ChainStore::blocks
Blocks(st, hashes) ==
    LET rows == SetToSeq({r \in st : r.hash \in hashes}) IN [i \in 1..Len(rows) |-> rows[i].data]

\* ChainStore::delete_blocks
DeleteBlocks(st, hashes) == {r \in st : r.hash \notin hashes}

\* ----------------------------------------------------------- get_single_item
\* variant: the first item of several is taken
GetSingleItemFirst(collection) ==
    IF Len(collection) = 0 THEN [tag |-> "NotFound"]
    ELSE [tag |-> "Ok", item |-> collection[1]]

GetSingleItem(collection) ==
    CASE Len(collection) = 1 -> [tag |-> "Ok", item |-> collection[1]]
      [] Len(collection) = 0 -> [tag |-> "NotFound"]
      [] OTHER -> [tag |-> "Ambiguous"]

\* ------------------------------------------------------------- the upstream
\* EthereumAdapter::block_by_hash: a transport error, no block, or a block
\* carrying the hash upstream reports for it
Responses(hash, cached) ==
    { [tag |-> "Err"], [tag |-> "Ok", block |-> None] }
    \cup { [tag |-> "Ok", block |-> Some([hash |-> Some(hash), fields |-> f])] :
             f \in UpstreamFields(cached) }
    \cup { [tag |-> "Ok", block |-> Some([hash |-> h, fields |-> f])] :
             h \in {None, Some(ForkHash(0))},
             f \in {<<<<"txs", cached.txs>>, <<"number", cached.number>>>>} }

\* variant: the reported hash is not looked at
HashMatchesAny(provider_block, hash) == TRUE

\* the hash check of fetch_provider_blocks
HashMatches(provider_block, hash) == provider_block.hash = Some(hash)

\* variant: the loop leaves after the first block
FetchCompleteAfterFirst(cached, provider) == cached = <<>> \/ Len(provider) >= 1

\* fetch_provider_blocks has gone through every cached block
FetchComplete(cached, provider) == Len(provider) = Len(cached)

\* variant: the block fetched goes to the front
PushProviderBlockFront(blocks, value) == <<value>> \o blocks

\* provider_blocks.push
PushProviderBlock(blocks, value) == Append(blocks, value)

\* one iteration of the loop of fetch_provider_blocks
FetchOutcome(hash, resp) ==
    IF resp.tag = "Err" THEN [tag |-> "Err", err |-> "failed to fetch block"]
    ELSE IF resp.block = None
         THEN [tag |-> "Err", err |-> "JRPC provider found no block with hash"]
    ELSE IF ~HashMatches(resp.block[1], hash)
         THEN [tag |-> "Err", err |-> "Provider responded with a different block hash"]
    ELSE [tag |-> "Ok", value |-> ToValue(resp.block[1].fields)]

\* ---------------------------------------------------------------- diff_blocks
\* what the diff library hands back for two unequal documents: the delta, or
\* (as diff_blocks allows for) nothing or a null value
DiffKinds == {"delta", "null", "none"}

DiffResult(json1, json2, kind) ==
    CASE kind = "delta" -> JsonDiff(json1, json2)
      [] kind = "null" -> Some(JsonNull)
      [] OTHER -> None

\* variant: only a missing diff counts as no difference
JsonDiffTextNullRendered(diff) ==
    IF diff = None THEN None
    ELSE Some(IF diff = Some(JsonNull) THEN {} ELSE DiffToString(diff[1]))

\* the match on diff_result.diff
JsonDiffText(diff) ==
    IF diff = None \/ diff = Some(JsonNull) THEN None ELSE Some(DiffToString(diff[1]))

\* variant: a report with a rendered diff is pushed for every pair
DiffPairAlways(hash, cached_block, provider_block, kind) ==
    LET diff == JsonDiff(cached_block, provider_block) IN
    <<<<hash, Some(IF diff = None THEN {} ELSE DiffToString(diff[1]))>>>>

\* the reports diff_blocks pushes for one pair
DiffPair(hash, cached_block, provider_block, kind) ==
    IF cached_block # provider_block
    THEN <<<<hash, JsonDiffText(DiffResult(cached_block, provider_block, kind))>>>>
    ELSE <<>>

\* the number of pairs of cached.iter().zip(provider.iter())
ZipLen(cached, provider) == IF Len(cached) <= Len(provider) THEN Len(cached) ELSE Len(provider)

\* diff_blocks over cached.iter().zip(provider.iter()); serde_json::to_value
\* of a value that already is a JSON value yields that value
RECURSIVE DiffBlocks(_, _, _)
DiffBlocks(cached, provider, kinds) ==
    IF cached = <<>> \/ provider = <<>> THEN <<>>
    ELSE DiffPair(Head(cached)[1], Head(cached)[2], Head(provider), Head(kinds))
            \o DiffBlocks(Tail(cached), Tail(provider), Tail(kinds))

\* --------------------------------------------------- prompt_for_confirmation
Newline == "\n"
Whitespace == {" ", Newline}
Upper == <<"Y", "E", "S", "N", "O">>
Lower == <<"y", "e", "s", "n", "o">>

MakeAsciiLowercase(s) ==
    [i \in 1..Len(s) |-> IF IndexIn(s[i], Upper) > 0 THEN Lower[IndexIn(s[i], Upper)] ELSE s[i]]

RECURSIVE TrimStart(_)
TrimStart(s) == IF s # <<>> /\ Head(s) \in Whitespace THEN TrimStart(Tail(s)) ELSE s

Trim(s) == Reverse(TrimStart(Reverse(TrimStart(s))))

\* variant: the answer is not lowercased
ConfirmsCaseSensitive(answer) == Trim(answer) \in {<<"y">>, <<"y", "e", "s">>}

Confirms(answer) == Trim(MakeAsciiLowercase(answer)) \in {<<"y">>, <<"y", "e", "s">>}

\* ------------------------------------------------------------------- inputs
Numeral(n) == <<Digits[n + 1]>>
I32MaxText == <<"2", "1", "4", "7", "4", "8", "3", "6", "4", "7">>

LowerTexts == {<<>>, <<"-", "1">>} \cup {Numeral(n) : n \in 0..2}
UpperTexts == {<<>>, I32MaxText} \cup {Numeral(n) : n \in 0..MaxBlock}

RangeTexts ==
    { l \o sep \o u : l \in LowerTexts, sep \in {EXCLUSIVE, INCLUSIVE}, u \in UpperTexts }
    \cup { <<>>, <<"5">>, <<"1", ".", ".", "2", ".", ".", "3">>, <<"a", ".", ".", "2">>,
           <<"1", ".", ".", ".", "2">> }

Numbers == (-1)..(MaxBlock + 1)

HashTexts ==
    { <<"0", "x">> \o HexEncode(PrimaryHash(n), HexLower) : n \in 1..(MaxBlock + 1) }
    \cup { HexEncode(PrimaryHash(n), HexUpper) : n \in 1..MaxBlock }
    \cup { <<"0", "x">> \o HexEncode(ForkHash(1), HexLower),
           <<"0", "x", "0", "x">> \o HexEncode(PrimaryHash(1), HexLower),
           <<"z", "z">>, <<>>,
           HexEncode(SubSeq(PrimaryHash(1), 1, HashBytes - 1), HexLower),
           HexEncode(PrimaryHash(1) \o <<0>>, HexLower),
           <<"0", "x", "a">> \o HexEncode(PrimaryHash(1), HexLower) }

Answers ==
    { <<"y", Newline>>, <<"Y", Newline>>, <<"y", "e", "s", Newline>>,
      <<"Y", "E", "S", Newline>>, <<" ", "y", " ", Newline>>, <<"n", Newline>>,
      <<"n", "o", Newline>>, <<"y", "y", Newline>>, <<Newline>>, <<>> }

\* -------------------------------------------------------------------- state
VARIABLES
    store,              \* the rows of the block cache
    pc,                 \* position of the command being run
    cmd,                \* the command being run
    input,              \* its argument
    result,             \* "none" while running, then "Ok", "Err" or "Panic"
    error,              \* the message of the error returned
    range,              \* by_range: the parsed Range
    max,                \* by_range: the resolved upper end of the loop
    block_number,       \* the block number being resolved
    block_hash,         \* the block hash being resolved
    cached_blocks,      \* hashes_and_blocks / the slice given to compare_blocks
    provider_blocks,    \* fetch_provider_blocks: the blocks fetched so far
    comparison_results, \* what diff_blocks returned
    next_report,        \* index of the next comparison result to report
    initial_store,      \* the cache as the command found it
    number_lookups,     \* block numbers passed to block_hashes_by_block_number
    hash_lookups,       \* hashes passed to blocks
    head_queries,       \* answers of chain_head_ptr
    requests,           \* hashes passed to block_by_hash, with the responses
    diff_kinds,         \* what the diff library returned per pair
    stderr,             \* divergences shown to the operator
    stdout,             \* prompt and notices
    deleted,            \* hashes passed to delete_blocks, those that succeeded
    truncated           \* truncate_block_cache succeeded

vars == <<store, pc, cmd, input, result, error, range, max, block_number, block_hash,
          cached_blocks, provider_blocks, comparison_results, next_report,
          initial_store, number_lookups, hash_lookups, head_queries, requests,
          diff_kinds, stderr, stdout, deleted, truncated>>

logs == <<number_lookups, hash_lookups, head_queries, requests, diff_kinds, stderr,
          stdout, deleted, truncated>>

locals == <<range, max, block_number, block_hash, cached_blocks, provider_blocks,
            comparison_results, next_report>>

Init ==
    /\ store \in Stores
    /\ initial_store = store
    /\ pc = "idle"
    /\ cmd = "none"
    /\ input = <<>>
    /\ result = "none"
    /\ error = ""
    /\ range = None
    /\ max = 0
    /\ block_number = 0
    /\ block_hash = <<>>
    /\ cached_blocks = <<>>
    /\ provider_blocks = <<>>
    /\ comparison_results = <<>>
    /\ next_report = 1
    /\ number_lookups = <<>>
    /\ hash_lookups = <<>>
    /\ head_queries = <<>>
    /\ requests = <<>>
    /\ diff_kinds = <<>>
    /\ stderr = <<>>
    /\ stdout = <<>>
    /\ deleted = <<>>
    /\ truncated = FALSE

Fail(msg) == pc' = "done" /\ result' = "Err" /\ error' = msg
Panic == pc' = "done" /\ result' = "Panic" /\ error' = "panic"
Continue(next) == pc' = next /\ UNCHANGED <<result, error>>

\* the condition of `for block_number in min..=max`
InLoop(n, mx) == n <= mx

\* entering the loop of by_range
BeginLoop(min, mx) ==
    /\ max' = mx
    /\ block_number' = min
    /\ Continue(IF InLoop(min, mx) THEN "block_hashes" ELSE "fetch")

\* by_hash, up to the first store call
ByHash(text) ==
    /\ pc = "idle"
    /\ cmd' = "by_hash"
    /\ input' = text
    /\ LET parsed == ParseBlockHash(text) IN
       CASE parsed.tag = "Err" ->
              Fail("Cannot parse H256 value from string") /\ UNCHANGED block_hash
         [] parsed.tag = "Panic" -> Panic /\ UNCHANGED block_hash
         [] OTHER -> block_hash' = parsed.hash /\ Continue("blocks")
    /\ UNCHANGED <<store, initial_store, range, max, block_number, cached_blocks,
                   provider_blocks, comparison_results, next_report, logs>>

\* by_number, up to the first store call
ByNumber(number) ==
    /\ pc = "idle"
    /\ cmd' = "by_number"
    /\ input' = <<number>>
    /\ block_number' = number
    /\ Continue("block_hashes")
    /\ UNCHANGED <<store, initial_store, range, max, block_hash, cached_blocks,
                   provider_blocks, comparison_results, next_report, logs>>

\* by_range, up to the first store call
ByRange(text) ==
    /\ pc = "idle"
    /\ cmd' = "by_range"
    /\ input' = text
    /\ LET parsed == RangeFromStr(text) IN
       IF ~parsed.ok
       THEN Fail(parsed.err) /\ UNCHANGED <<range, max, block_number>>
       ELSE /\ range' = Some(parsed.range)
            /\ \E mm \in MinMax(parsed.range) :
                 CASE mm.tag = "Err" -> Fail(mm.err) /\ UNCHANGED <<max, block_number>>
                   [] mm.tag = "Panic" -> Panic /\ UNCHANGED <<max, block_number>>
                   [] OTHER ->
                        IF mm.max = None
                        THEN /\ block_number' = mm.min
                             /\ Continue("chain_head")
                             /\ UNCHANGED max
                        ELSE BeginLoop(mm.min, mm.max[1])
    /\ UNCHANGED <<store, initial_store, block_hash, cached_blocks, provider_blocks,
                   comparison_results, next_report, logs>>

\* variant: a missing chain head counts as block 0
HeadNumberOrZero(answer) ==
    [tag |-> "Ok", number |-> IF answer = None THEN 0 ELSE answer[1]]

\* what by_range makes of the answer of chain_head_ptr
HeadNumber(answer) ==
    IF answer = None THEN [tag |-> "Err", err |-> "Could not find the chain head"]
    ELSE [tag |-> "Ok", number |-> answer[1]]

\* by_range: the open upper bound is resolved to the chain head
ChainHeadPtr ==
    /\ pc = "chain_head"
    /\ \E answer \in {[tag |-> "Err"]}
                       \cup {[tag |-> "Ok", ptr |-> p] : p \in {None} \cup {Some(n) : n \in 0..MaxBlock}} :
         /\ head_queries' = Append(head_queries, answer)
         /\ IF answer.tag = "Err"
            THEN Fail("store error") /\ UNCHANGED <<max, block_number>>
            ELSE LET head == HeadNumber(answer.ptr) IN
                 IF head.tag = "Err"
                 THEN Fail(head.err) /\ UNCHANGED <<max, block_number>>
                 ELSE BeginLoop(block_number, head.number)
    /\ UNCHANGED <<store, initial_store, cmd, input, range, block_hash, cached_blocks,
                   provider_blocks, comparison_results, next_report, number_lookups,
                   hash_lookups, requests, diff_kinds, stderr, stdout, deleted, truncated>>

\* block_hashes_by_block_number and get_single_item("block hash", ..)
BlockHashesStep ==
    /\ pc = "block_hashes"
    /\ number_lookups' = Append(number_lookups, block_number)
    /\ \E ok \in BOOLEAN :
         IF ~ok THEN Fail("store error") /\ UNCHANGED block_hash
         ELSE LET item == GetSingleItem(BlockHashesByBlockNumber(store, block_number)) IN
              CASE item.tag = "NotFound" ->
                     Fail("Expected a single block hash but found none.")
                         /\ UNCHANGED block_hash
                [] item.tag = "Ambiguous" ->
                     Fail("Expected a single block hash but found multiple occurrences.")
                         /\ UNCHANGED block_hash
                [] OTHER -> block_hash' = item.item /\ Continue("blocks")
    /\ UNCHANGED <<store, initial_store, cmd, input, range, max, block_number,
                   cached_blocks, provider_blocks, comparison_results, next_report,
                   hash_lookups, head_queries, requests, diff_kinds, stderr, stdout,
                   deleted, truncated>>

\* blocks and get_single_item("block", ..); by_range then moves to the next number
BlocksStep ==
    /\ pc = "blocks"
    /\ hash_lookups' = Append(hash_lookups, block_hash)
    /\ \E ok \in BOOLEAN :
         IF ~ok THEN Fail("store error") /\ UNCHANGED <<cached_blocks, block_number>>
         ELSE LET item == GetSingleItem(Blocks(store, {block_hash})) IN
              CASE item.tag = "NotFound" ->
                     Fail("Expected a single block but found none.")
                         /\ UNCHANGED <<cached_blocks, block_number>>
                [] item.tag = "Ambiguous" ->
                     Fail("Expected a single block but found multiple occurrences.")
                         /\ UNCHANGED <<cached_blocks, block_number>>
                [] OTHER ->
                     /\ cached_blocks' = Append(cached_blocks, <<block_hash, item.item>>)
                     /\ IF cmd = "by_range" /\ block_number < I32Max
                           /\ InLoop(block_number + 1, max)
                        THEN block_number' = block_number + 1 /\ Continue("block_hashes")
                        ELSE UNCHANGED block_number /\ Continue("fetch")
    /\ UNCHANGED <<store, initial_store, cmd, input, range, max, block_hash,
                   provider_blocks, comparison_results, next_report, number_lookups,
                   head_queries, requests, diff_kinds, stderr, stdout, deleted, truncated>>

\* fetch_provider_blocks: one iteration of its loop
FetchProviderBlock ==
    /\ pc = "fetch"
    /\ ~FetchComplete(cached_blocks, provider_blocks)
    /\ LET pair == cached_blocks[Len(provider_blocks) + 1] IN
       \E resp \in Responses(pair[1], pair[2]) :
         /\ requests' = Append(requests, [hash |-> pair[1], resp |-> resp])
         /\ LET outcome == FetchOutcome(pair[1], resp) IN
            IF outcome.tag = "Err"
            THEN Fail(outcome.err) /\ UNCHANGED provider_blocks
            ELSE provider_blocks' = PushProviderBlock(provider_blocks, outcome.value)
                    /\ Continue("fetch")
    /\ UNCHANGED <<store, initial_store, cmd, input, range, max, block_number, block_hash,
                   cached_blocks, comparison_results, next_report, number_lookups,
                   hash_lookups, head_queries, diff_kinds, stderr, stdout, deleted,
                   truncated>>

\* what the caller of compare_blocks makes of the result set
ComparisonOutcome(command, result_set) ==
    IF command = "by_range" THEN [tag |-> "Ok"]
    ELSE LET item == GetSingleItem(result_set) IN
         CASE item.tag = "NotFound" ->
                [tag |-> "Err", err |-> "Expected a single comparison but found none."]
           [] item.tag = "Ambiguous" ->
                [tag |-> "Err",
                 err |-> "Expected a single comparison but found multiple occurrences."]
           [] OTHER -> [tag |-> "Ok"]

\* the end of fetch_provider_blocks, diff_blocks, and the caller's use of the result
CompareBlocks ==
    /\ pc = "fetch"
    /\ FetchComplete(cached_blocks, provider_blocks)
    /\ \E kinds \in [1..ZipLen(cached_blocks, provider_blocks) -> DiffKinds] :
         /\ \A i \in 1..ZipLen(cached_blocks, provider_blocks) :
               cached_blocks[i][2] = provider_blocks[i] => kinds[i] = "delta"
         /\ diff_kinds' = kinds
         /\ comparison_results' = DiffBlocks(cached_blocks, provider_blocks, kinds)
    /\ LET outcome == ComparisonOutcome(cmd, comparison_results') IN
       IF outcome.tag = "Err" THEN Fail(outcome.err) ELSE Continue("report")
    /\ UNCHANGED <<store, initial_store, cmd, input, range, max, block_number, block_hash,
                   cached_blocks, provider_blocks, next_report, number_lookups,
                   hash_lookups, head_queries, requests, stderr, stdout, deleted,
                   truncated>>

\* `if let (hash, Some(diff)) = comparison_result`
IsDivergent(comparison_result) == comparison_result[2] # None

\* variant: the divergence goes to the delete without being shown
DisplayNothing ==
    /\ pc = "report"
    /\ next_report <= Len(comparison_results)
    /\ IsDivergent(comparison_results[next_report])
    /\ Continue("delete")
    /\ UNCHANGED <<store, initial_store, cmd, input, locals, logs>>

\* the report loop: the divergence is shown to the operator
Display ==
    /\ pc = "report"
    /\ next_report <= Len(comparison_results)
    /\ IsDivergent(comparison_results[next_report])
    /\ stderr' = Append(stderr, <<comparison_results[next_report][1],
                                  comparison_results[next_report][2][1]>>)
    /\ Continue("delete")
    /\ UNCHANGED <<store, initial_store, cmd, input, locals, number_lookups, hash_lookups,
                   head_queries, requests, diff_kinds, stdout, deleted, truncated>>

\* the report loop: a result without a diff is passed over
SkipReport ==
    /\ pc = "report"
    /\ next_report <= Len(comparison_results)
    /\ ~IsDivergent(comparison_results[next_report])
    /\ next_report' = next_report + 1
    /\ Continue("report")
    /\ UNCHANGED <<store, initial_store, cmd, input, range, max, block_number, block_hash,
                   cached_blocks, provider_blocks, comparison_results, logs>>

\* variant: the hash resolved last is deleted
DeleteTargetLastResolved(command, hash, comparison_result) == hash

\* the hash handed to delete_blocks
DeleteTarget(command, hash, comparison_result) ==
    IF command = "by_number" THEN hash ELSE comparison_result[1]

\* variant: a failure of delete_blocks is passed over
DeleteStepIgnoringFailure ==
    /\ pc = "delete"
    /\ \E ok \in BOOLEAN :
         LET hash == DeleteTarget(cmd, block_hash, comparison_results[next_report]) IN
         /\ store' = IF ok THEN DeleteBlocks(store, {hash}) ELSE store
         /\ deleted' = IF ok THEN Append(deleted, hash) ELSE deleted
         /\ next_report' = next_report + 1
         /\ Continue("report")
    /\ UNCHANGED <<initial_store, cmd, input, range, max, block_number, block_hash,
                   cached_blocks, provider_blocks, comparison_results, number_lookups,
                   hash_lookups, head_queries, requests, diff_kinds, stderr, stdout,
                   truncated>>

\* the report loop: delete_blocks for the divergence just shown
DeleteStep ==
    /\ pc = "delete"
    /\ \E ok \in BOOLEAN :
         IF ~ok
         THEN Fail("store error") /\ UNCHANGED <<store, deleted, next_report>>
         ELSE LET hash == DeleteTarget(cmd, block_hash, comparison_results[next_report]) IN
              /\ store' = DeleteBlocks(store, {hash})
              /\ deleted' = Append(deleted, hash)
              /\ next_report' = next_report + 1
              /\ Continue("report")
    /\ UNCHANGED <<initial_store, cmd, input, range, max, block_number, block_hash,
                   cached_blocks, provider_blocks, comparison_results, number_lookups,
                   hash_lookups, head_queries, requests, diff_kinds, stderr, stdout,
                   truncated>>

\* the report loop is over: Ok(())
ReturnOk ==
    /\ pc = "report"
    /\ next_report > Len(comparison_results)
    /\ pc' = "done"
    /\ result' = "Ok"
    /\ UNCHANGED <<store, initial_store, cmd, input, error, locals, logs>>

PromptText == "This will delete all cached blocks. Proceed? [y/N] "

\* truncate, with prompt_for_confirmation
Truncate(skip_confirmation, answer) ==
    /\ pc = "idle"
    /\ cmd' = "truncate"
    /\ input' = <<skip_confirmation, answer>>
    /\ \E io_ok \in BOOLEAN, store_ok \in BOOLEAN :
         IF ~skip_confirmation /\ ~io_ok
         THEN /\ Fail("io error")
              /\ stdout' = Append(stdout, PromptText)
              /\ UNCHANGED <<store, truncated>>
         ELSE IF ~skip_confirmation /\ ~Confirms(answer)
         THEN /\ stdout' = Append(Append(stdout, PromptText), "Aborting.")
              /\ pc' = "done" /\ result' = "Ok" /\ UNCHANGED error
              /\ UNCHANGED <<store, truncated>>
         ELSE /\ stdout' = IF skip_confirmation THEN stdout ELSE Append(stdout, PromptText)
              /\ IF store_ok
                 THEN /\ store' = {}
                      /\ truncated' = TRUE
                      /\ pc' = "done" /\ result' = "Ok" /\ UNCHANGED error
                 ELSE /\ Fail("Failed to truncate block cache")
                      /\ UNCHANGED <<store, truncated>>
    /\ UNCHANGED <<initial_store, locals, number_lookups, hash_lookups, head_queries,
                   requests, diff_kinds, stderr, deleted>>

Next ==
    \/ \E text \in HashTexts : ByHash(text)
    \/ \E number \in Numbers : ByNumber(number)
    \/ \E text \in RangeTexts : ByRange(text)
    \/ \E skip \in BOOLEAN, answer \in Answers : Truncate(skip, answer)
    \/ ChainHeadPtr
    \/ BlockHashesStep
    \/ BlocksStep
    \/ FetchProviderBlock
    \/ CompareBlocks
    \/ Display
    \/ SkipReport
    \/ DeleteStep
    \/ ReturnOk

Spec == Init /\ [][Next]_vars

\* =================================================================== claims
Commands == {"by_hash", "by_number", "by_range"}

\* s is the sequence a, a+1, .. up to the length of s
Ascending(s, a) == \A i \in 1..Len(s) : s[i] = a + (i - 1)

\* s is the sequence a, a+1, .., b (empty when b < a)
IsNumberSeq(s, a, b) ==
    /\ Len(s) = (IF b < a THEN 0 ELSE (b - a) + 1)
    /\ Ascending(s, a)

\* by_range has resolved every block number of its range
ResolutionComplete ==
    /\ cmd = "by_range"
    /\ \/ pc \in {"fetch", "report", "delete"}
       \/ pc = "done" /\ (result = "Ok" \/ requests # <<>>)

\* the response upstream gave is not the block that was asked for
BadResponse(q) ==
    \/ q.resp.tag = "Err"
    \/ q.resp.block = None
    \/ q.resp.block[1].hash # Some(q.hash)

\* the payload upstream returned to the i-th request
Canonical(i) == ToValue(requests[i].resp.block[1].fields)

\* every resolved block was fetched, and upstream returned the block asked for
AllFetched ==
    /\ cached_blocks # <<>>
    /\ Len(requests) = Len(cached_blocks)
    /\ \A i \in 1..Len(requests) : ~BadResponse(requests[i])

\* diff_blocks has run on the resolved blocks
CompareDone == AllFetched /\ Len(diff_kinds) = Len(cached_blocks)

\* the first and last block numbers a range text with a closed upper bound denotes
DenotedLo(r) == IF r.lower_bound = None \/ r.lower_bound = Some(0) THEN 1 ELSE r.lower_bound[1]
DenotedHi(r) == IF r.inclusive THEN r.upper_bound[1] ELSE r.upper_bound[1] - 1

\* C1: for a range with a closed upper bound by_range looks up only block
\* numbers the text denotes (A..B: A to B-1, A..=B: A to B), and once it has
\* resolved the range it has looked up exactly those, in order.  (Upper bounds
\* below the largest i32, so that the arithmetic of min_max is exact.)
C1_ClosedRangeCoversDenoted ==
    (cmd = "by_range" /\ range # None /\ range[1].upper_bound # None
        /\ range[1].upper_bound[1] < I32Max) =>
        /\ \A i \in 1..Len(number_lookups) :
              /\ number_lookups[i] >= DenotedLo(range[1])
              /\ number_lookups[i] <= DenotedHi(range[1])
        /\ ResolutionComplete =>
              IsNumberSeq(number_lookups, DenotedLo(range[1]), DenotedHi(range[1]))

\* C2: no delete is invoked before every resolved block has been fetched and
\* diffed; when a response of upstream is an error, no block or another
\* block, or when resolution fails, the command ends in an error and nothing
\* has been deleted.
C2_NoDeleteBeforeCompare ==
    cmd \in Commands =>
        /\ (pc = "delete" \/ deleted # <<>>) => CompareDone
        /\ (\E i \in 1..Len(requests) : BadResponse(requests[i])) =>
              /\ pc = "done" /\ result = "Err"
              /\ deleted = <<>> /\ store = initial_store
        /\ (pc = "done" /\ result = "Err" /\ requests = <<>>) =>
              deleted = <<>> /\ store = initial_store

W2_FetchFailsAfterDivergentBlock ==
    /\ cmd = "by_range"
    /\ Len(requests) = 2
    /\ ~BadResponse(requests[1])
    /\ cached_blocks[1][2] # Canonical(1)
    /\ BadResponse(requests[2])

\* the i-th deleted hash is a resolved block that upstream returned with a
\* different payload and for which diff_blocks reported a diff
ConfirmedDivergent(hash) ==
    \E j \in 1..Len(cached_blocks) :
        /\ cached_blocks[j][1] = hash
        /\ j <= Len(requests)
        /\ ~BadResponse(requests[j])
        /\ requests[j].hash = hash
        /\ cached_blocks[j][2] # Canonical(j)
        /\ \E k \in 1..Len(comparison_results) :
              comparison_results[k][1] = hash /\ comparison_results[k][2] # None

\* C3: every hash deleted is a resolved block confirmed divergent; the cache
\* loses no other row and is never truncated by these commands.
C3_OnlyDivergentDeleted ==
    cmd \in Commands =>
        /\ ~truncated
        /\ \A i \in 1..Len(deleted) : ConfirmedDivergent(deleted[i])
        /\ store = {r \in initial_store : \A i \in 1..Len(deleted) : r.hash # deleted[i]}

W3_EqualKeptDivergentDeleted ==
    /\ cmd = "by_range"
    /\ pc = "done"
    /\ Len(deleted) = 1
    /\ Len(cached_blocks) = 2
    /\ \E j \in 1..2 : cached_blocks[j][2] = provider_blocks[j]

\* every payload upstream returned equals the cached payload
AllEqual ==
    /\ AllFetched
    /\ \A i \in 1..Len(requests) : cached_blocks[i][2] = Canonical(i)

\* C4: when every resolved block equals what upstream returns, the command
\* ends with Ok, having shown no divergence and deleted nothing.
C4_EqualBlocksReturnOk ==
    (cmd \in Commands /\ pc = "done" /\ AllEqual) =>
        result = "Ok" /\ deleted = <<>> /\ stderr = <<>>

\* C5: diff_blocks returns one report per pair, in order, with the hash of
\* the pair, without a diff for an equal pair.
C5_OneReportPerPair ==
    (cmd \in Commands /\ CompareDone) =>
        /\ Len(comparison_results) = Len(cached_blocks)
        /\ \A i \in 1..Len(comparison_results) :
              /\ comparison_results[i][1] = cached_blocks[i][1]
              /\ cached_blocks[i][2] = provider_blocks[i] => comparison_results[i][2] = None

\* the resolved hashes whose payload differs from the canonical one with a
\* diff that is not empty
Divergent ==
    { cached_blocks[j][1] : j \in
        { i \in 1..Len(cached_blocks) :
            /\ cached_blocks[i][2] # Canonical(i)
            /\ DiffResult(cached_blocks[i][2], Canonical(i), diff_kinds[i])
                  \notin {None, Some(JsonNull)} } }

\* C6: when the command ends with Ok, the cache holds what it held before
\* minus the rows of the divergent blocks.
C6_SuccessDeletesDivergent ==
    (cmd \in Commands /\ pc = "done" /\ result = "Ok") =>
        store = {r \in initial_store : r.hash \notin Divergent}

W6_TwoDivergentDeleted ==
    /\ cmd = "by_range"
    /\ pc = "done" /\ result = "Ok"
    /\ Cardinality(Divergent) = 2
    /\ store # initial_store

\* C7: a response of upstream without a block, or with a block of another
\* hash, ends the command in an error; no payload and no comparison result
\* is made of it.
C7_BadResponseIsError ==
    \A i \in 1..Len(requests) :
        (requests[i].resp.tag = "Ok" /\ BadResponse(requests[i])) =>
            /\ i = Len(requests)
            /\ pc = "done" /\ result = "Err"
            /\ Len(provider_blocks) < i
            /\ comparison_results = <<>>
            /\ deleted = <<>>

W7_SecondBlockMismatch ==
    /\ cmd = "by_range"
    /\ Len(requests) = 2
    /\ requests[2].resp.tag = "Ok"
    /\ requests[2].resp.block # None
    /\ requests[2].resp.block[1].hash # Some(requests[2].hash)

\* the same range text with the other separator (upper bound open)
OtherSeparator(text) ==
    IF Contains(text, INCLUSIVE) THEN SubSeq(text, 1, Len(text) - 1) ELSE text \o <<"=">>

OpenUpper == cmd = "by_range" /\ range # None /\ range[1].upper_bound = None

\* C8: a range text with an open upper bound parses to the same Range with
\* either separator, and by_range looks up the block numbers from the lower
\* bound (1 when absent) to the chain head, the head included.
C8_OpenUpperInclusiveOfHead ==
    (OpenUpper /\ range[1].lower_bound \notin {Some(0), Some(-1)}) =>
        /\ RangeFromStr(OtherSeparator(input)) = [ok |-> TRUE, range |-> range[1]]
        /\ range[1].inclusive
        /\ head_queries = <<>> => number_lookups = <<>>
        /\ (head_queries # <<>> /\ head_queries[1].tag = "Ok" /\ head_queries[1].ptr # None) =>
              /\ Ascending(number_lookups, DenotedLo(range[1]))
              /\ \A i \in 1..Len(number_lookups) : number_lookups[i] <= head_queries[1].ptr[1]
              /\ ResolutionComplete =>
                    IsNumberSeq(number_lookups, DenotedLo(range[1]), head_queries[1].ptr[1])

W8_LowerOnlyResolvedToHead ==
    /\ OpenUpper
    /\ input = <<"1", ".", ".">>
    /\ ResolutionComplete
    /\ number_lookups = <<1, 2>>

\* C9: with an open upper bound and no chain head the command ends in an
\* error without any lookup, fetch or deletion; the chain head is queried
\* only for an open upper bound, and once.
C9_NoChainHeadIsFatal ==
    /\ (head_queries # <<>> /\ head_queries[1] = [tag |-> "Ok", ptr |-> None]) =>
          /\ pc = "done" /\ result = "Err"
          /\ number_lookups = <<>> /\ hash_lookups = <<>>
          /\ requests = <<>> /\ deleted = <<>> /\ store = initial_store
    /\ head_queries # <<>> => OpenUpper /\ Len(head_queries) = 1
    /\ (cmd = "by_range" /\ number_lookups # <<>> /\ range[1].upper_bound = None) =>
          head_queries # <<>>

W9_NoChainHead ==
    /\ OpenUpper
    /\ head_queries = <<[tag |-> "Ok", ptr |-> None]>>

\* the command stopped before any fetch or deletion
AbortedInResolution ==
    /\ pc = "done" /\ result = "Err"
    /\ requests = <<>> /\ deleted = <<>> /\ store = initial_store

NotFoundErrors ==
    {"Expected a single block hash but found none.", "Expected a single block but found none.",
     "store error"}
AmbiguousErrors ==
    {"Expected a single block hash but found multiple occurrences.",
     "Expected a single block but found multiple occurrences.", "store error"}

\* what must hold after a lookup that found `count` rows, the i-th of n lookups
SingleMatchRequired(count, i, n) ==
    count # 1 =>
        /\ i = n
        /\ AbortedInResolution
        /\ error \in (IF count = 0 THEN NotFoundErrors ELSE AmbiguousErrors)

\* C10: a block number without exactly one hash, or a hash without exactly
\* one payload, ends the command in a not-found or an ambiguous error with no
\* later lookup, no fetch and no deletion; a block is resolved only from the
\* one row that matches.
C10_ExactlyOneMatch ==
    cmd \in Commands =>
        /\ \A i \in 1..Len(number_lookups) :
              SingleMatchRequired(
                  Cardinality({r \in initial_store : r.number = number_lookups[i]}),
                  i, Len(number_lookups))
        /\ \A i \in 1..Len(hash_lookups) :
              SingleMatchRequired(
                  Cardinality({r \in initial_store : r.hash = hash_lookups[i]}),
                  i, Len(hash_lookups))
        /\ \A j \in 1..Len(cached_blocks) :
              {r \in initial_store : r.hash = cached_blocks[j][1]}
                  = {Row(r.number, cached_blocks[j][1], cached_blocks[j][2]) :
                        r \in {x \in initial_store : x.hash = cached_blocks[j][1]}}

W10_SecondNumberAmbiguous ==
    /\ cmd = "by_range"
    /\ Len(number_lookups) = 2
    /\ error = "Expected a single block hash but found multiple occurrences."

\* the answers that read `y` or `yes` once trimmed, whatever the case
AffirmativeAnswers ==
    { <<"y", Newline>>, <<"Y", Newline>>, <<"y", "e", "s", Newline>>,
      <<"Y", "E", "S", Newline>>, <<" ", "y", " ", Newline>> }

Confirmed == input[1] \/ input[2] \in AffirmativeAnswers

\* C11: truncate empties the cache only with the skip flag or an answer of
\* `y` or `yes`; with the flag it does not prompt; with any other answer it
\* leaves the cache as it was, prints the abort notice and returns Ok; with
\* confirmation it returns Ok only when the cache has been emptied.
C11_TruncateIffConfirmed ==
    (cmd = "truncate" /\ pc = "done") =>
        /\ truncated => Confirmed /\ store = {}
        /\ ~truncated => store = initial_store
        /\ input[1] => stdout = <<>>
        /\ ~input[1] => stdout # <<>> /\ stdout[1] = PromptText
        /\ (~Confirmed /\ error # "io error") =>
              /\ result = "Ok" /\ ~truncated
              /\ stdout = <<PromptText, "Aborting.">>
        /\ (Confirmed /\ result = "Ok") =>
              truncated /\ (\A i \in 1..Len(stdout) : stdout[i] # "Aborting.")
        /\ deleted = <<>>

W11_UppercaseYesTruncates ==
    /\ cmd = "truncate"
    /\ input = <<FALSE, <<"Y", "E", "S", Newline>>>>
    /\ truncated
    /\ initial_store # {}

\* C12: a hash is handed to delete_blocks only after it and its rendered
\* diff have been shown: the command stands at a delete only with the hash
\* and the diff of the current report shown last, and the i-th hash deleted
\* is the i-th shown.
C12_DisplayBeforeDelete ==
    cmd \in Commands =>
        /\ Len(deleted) <= Len(stderr)
        /\ \A i \in 1..Len(deleted) : stderr[i][1] = deleted[i]
        /\ pc = "delete" =>
              /\ Len(stderr) = Len(deleted) + 1
              /\ stderr[Len(stderr)] = <<comparison_results[next_report][1],
                                         comparison_results[next_report][2][1]>>
              /\ stderr[Len(stderr)][1]
                    = DeleteTarget(cmd, block_hash, comparison_results[next_report])

W12_SecondShownThenDeleted ==
    /\ cmd = "by_range"
    /\ Len(stderr) = 2
    /\ Len(deleted) = 2
    /\ stderr[2][1] = deleted[2]

\* the pairs that compare unequal and for which the diff library returned no
\* diff or a null diff
EmptyDelta ==
    { i \in 1..Len(diff_kinds) :
        /\ cached_blocks[i][2] # provider_blocks[i]
        /\ diff_kinds[i] \in {"null", "none"} }

\* C13: a pair that compares unequal but whose diff is missing or null is
\* reported without a diff, is not shown as divergent, and keeps its rows in
\* the cache.
C13_EmptyDeltaIsNoDivergence ==
    cmd \in Commands =>
        \A i \in EmptyDelta :
            /\ \E k \in 1..Len(comparison_results) :
                  comparison_results[k] = <<cached_blocks[i][1], None>>
            /\ \A k \in 1..Len(deleted) : deleted[k] # cached_blocks[i][1]
            /\ \A k \in 1..Len(stderr) : stderr[k][1] # cached_blocks[i][1]
            /\ {r \in store : r.hash = cached_blocks[i][1]}
                  = {r \in initial_store : r.hash = cached_blocks[i][1]}

W13_NullDeltaKept ==
    /\ cmd = "by_range"
    /\ pc = "done" /\ result = "Ok"
    /\ Len(diff_kinds) = 2
    /\ diff_kinds[1] = "null"
    /\ cached_blocks[1][2] # provider_blocks[1]
    /\ deleted = <<cached_blocks[2][1]>>

\* the range text `A sep B` of two one-digit bounds
BothBounds(a, sep, b) == Numeral(a) \o sep \o Numeral(b)

RangeErrors ==
    {"Malformed range expression", "Invalid range", "ParseIntError", "Negative block number"}

\* by_range returned an error about its range text without touching the store
RejectedBeforeStore ==
    /\ pc = "done" /\ result = "Err" /\ error \in RangeErrors
    /\ number_lookups = <<>> /\ hash_lookups = <<>> /\ head_queries = <<>>
    /\ requests = <<>> /\ deleted = <<>> /\ store = initial_store

\* C14: a range text with lower > upper, with a negative lower bound or
\* without a separator is rejected with an error before any store access; a
\* text `A..B` or `A..=B` with 0 <= A <= B is parsed to the Range of these
\* bounds and is not rejected.
C14_RangeTextValidation ==
    cmd = "by_range" =>
        /\ \A a \in 0..2, b \in 0..MaxBlock, sep \in {EXCLUSIVE, INCLUSIVE} :
              input = BothBounds(a, sep, b) =>
                  IF a > b THEN RejectedBeforeStore /\ error = "Invalid range"
                  ELSE /\ range = Some(RangeNew(Some(a), Some(b), sep = INCLUSIVE))
                       /\ error \notin RangeErrors
        /\ \A a \in 0..2, sep \in {EXCLUSIVE, INCLUSIVE} :
              input = Numeral(a) \o sep \o I32MaxText =>
                  /\ range = Some(RangeNew(Some(a), Some(I32Max), sep = INCLUSIVE))
                  /\ error \notin RangeErrors
        /\ (input # <<>> /\ input[1] = "-") => RejectedBeforeStore
        /\ (\A i \in 1..(Len(input) - 1) : ~(input[i] = "." /\ input[i + 1] = ".")) =>
              RejectedBeforeStore /\ error = "Malformed range expression"

W14_LowerAboveUpperRejected ==
    /\ cmd = "by_range"
    /\ input = BothBounds(2, EXCLUSIVE, 1)
    /\ RejectedBeforeStore

\* the text is 64 hexadecimal digits after one optional `0x`
WellFormedHashText(text) ==
    LET body == IF StartsWith(text, <<"0", "x">>) THEN SubSeq(text, 3, Len(text)) ELSE text IN
    /\ Len(body) = 2 * HashBytes
    /\ \A i \in 1..Len(body) : HexVal(body[i]) >= 0

\* C15: by_hash goes on to the store only with a text that decodes to 32
\* bytes after one optional `0x`; for any other text it returns the parse
\* error, without a panic and without lookup, fetch or deletion.
C15_MalformedHashIsParseError ==
    (cmd = "by_hash" /\ ~WellFormedHashText(input)) =>
        /\ pc = "done"
        /\ result = "Err"
        /\ error = "Cannot parse H256 value from string"
        /\ hash_lookups = <<>> /\ requests = <<>> /\ deleted = <<>>

\* C16: the payloads fetch_provider_blocks has gathered are, in order, the
\* payloads upstream returned for the hashes of the cached blocks in their
\* order; once it has succeeded there is one per cached block, and every
\* report of diff_blocks comes from a cached block and the payload fetched
\* for its hash.
C16_FetchKeepsOrder ==
    cmd \in Commands =>
        /\ Len(provider_blocks) <= Len(requests)
        /\ Len(requests) <= Len(cached_blocks)
        /\ \A i \in 1..Len(requests) : requests[i].hash = cached_blocks[i][1]
        /\ \A i \in 1..Len(provider_blocks) :
              /\ ~BadResponse(requests[i])
              /\ provider_blocks[i] = Canonical(i)
        /\ pc \in {"report", "delete"} => Len(provider_blocks) = Len(cached_blocks)
        /\ \A k \in 1..Len(comparison_results) :
              \E i \in 1..Len(provider_blocks) :
                  /\ cached_blocks[i][1] = comparison_results[k][1]
                  /\ requests[i].hash = comparison_results[k][1]
                  /\ cached_blocks[i][2] # Canonical(i)

W16_TwoFetchedInOrder ==
    /\ cmd = "by_range"
    /\ pc = "report"
    /\ Len(provider_blocks) = 2
    /\ provider_blocks[1] # provider_blocks[2]
    /\ Len(comparison_results) = 2

\* the range text has no lower bound, or the lower bound 0
LowerAbsentOrZero(text) ==
    \/ StartsWith(text, EXCLUSIVE)
    \/ StartsWith(text, <<"0">> \o EXCLUSIVE)

\* C17: with a lower bound that is absent or 0, by_range looks up block
\* number 1 first and never block number 0.
C17_LowerDefaultsToOne ==
    (cmd = "by_range" /\ LowerAbsentOrZero(input)) =>
        /\ \A i \in 1..Len(number_lookups) : number_lookups[i] >= 1
        /\ number_lookups # <<>> => number_lookups[1] = 1
        /\ pc = "block_hashes" /\ number_lookups = <<>> => block_number = 1

W17_ZeroLowerStartsAtOne ==
    /\ cmd = "by_range"
    /\ input = <<"0", ".", ".">>
    /\ number_lookups = <<1, 2>>

\* the block number under which the cache held the hash
NumberOf(hash) == (CHOOSE r \in initial_store : r.hash = hash).number

\* the reports of diff_blocks that carry a diff
DivergentReports == SelectSeq(comparison_results, IsDivergent)

\* C18: by_range deletes the divergent blocks one at a time in ascending
\* block number; when a delete fails the command returns the error at once:
\* the block shown last is the one whose delete failed, no later divergent
\* block is shown or deleted, and the blocks deleted before stay deleted.
C18_DeleteOrderAndFailure ==
    cmd = "by_range" =>
        /\ \A i \in 1..Len(stderr) : stderr[i][1] = DivergentReports[i][1]
        /\ \A i \in 1..Len(deleted) : deleted[i] = DivergentReports[i][1]
        /\ \A i, j \in 1..Len(deleted) : i < j => NumberOf(deleted[i]) < NumberOf(deleted[j])
        /\ Len(deleted) <= Len(stderr) /\ Len(stderr) <= Len(deleted) + 1
        /\ (pc = "done" /\ Len(stderr) = Len(deleted) + 1) =>
              /\ result = "Err" /\ error = "store error"
              /\ \E r \in store : r.hash = stderr[Len(stderr)][1]
        /\ (pc = "done" /\ result = "Ok") => Len(deleted) = Len(DivergentReports)
        /\ store = {r \in initial_store : \A i \in 1..Len(deleted) : r.hash # deleted[i]}

W18_SecondDeleteFails ==
    /\ cmd = "by_range"
    /\ pc = "done" /\ result = "Err"
    /\ Len(DivergentReports) = 2
    /\ Len(stderr) = 2
    /\ Len(deleted) = 1
    /\ store # initial_store

\* C19: for every Range with a closed upper bound and a lower bound that is
\* not negative, min_max returns without overflow: max is the upper bound
\* plus one when inclusive and the upper bound otherwise, and min is at
\* least 1.
C19_MinMaxWithinI32 ==
    (cmd = "by_range" /\ range # None /\ range[1].upper_bound # None
        /\ error # "Negative block number") =>
        /\ result # "Panic"
        /\ IF range[1].inclusive
           THEN max > range[1].upper_bound[1] /\ max - range[1].upper_bound[1] = 1
           ELSE max = range[1].upper_bound[1]
        /\ block_number >= 1
====
